---- MODULE Spec2Model ----
(***************************************************************************)
(* A model of shopify2xero's sync engine (class Shopify2Xero):             *)
(* copy_customer, copy_order, copy_orders and copy_all_orders_for_payout,  *)
(* run against a storefront (customers, orders, variants, payouts,         *)
(* payout transactions) and an accounting system (contacts, invoices).     *)
(* Money is in integer cents.  Strings that the code takes apart (customer *)
(* names, which it strips) are sequences of one-character strings.         *)
(***************************************************************************)
EXTENDS Integers, Sequences, FiniteSets, TLC

VARIABLES
    customers,       \* storefront: customer id -> customer
    orders,          \* storefront: order id -> order
    transactionsOf,  \* storefront: payout id -> list of balance transactions
    contacts,        \* accounting: the contacts, in the order the API lists them
    invoices,        \* accounting: the invoices, in the order the API lists them
    pc,              \* "idle", or "copy_orders" inside copy_all_orders_for_payout
    op,              \* the current (or last) top-level call and its arguments
    order_ids,       \* copy_orders: the order ids still to be iterated
    payout,          \* copy_all_orders_for_payout: the resolved payout
    transactions,    \* copy_all_orders_for_payout: the fetched transactions
    result,          \* outcome of the current (or last) top-level call
    writes,          \* accounting writes issued by the top-level call so far
    invoked,         \* copy_order invocations of the top-level call so far
    calls,           \* remote calls made by the top-level call so far
    created          \* customer id -> contacts created on behalf of copy_order

vars == <<customers, orders, transactionsOf, contacts, invoices, pc, op,
          order_ids, payout, transactions, result, writes, invoked, calls,
          created>>

storefront == <<customers, orders, transactionsOf>>

\* ------------------------------------------------------------------ bounds

MaxTx == 3            \* longest list of payout transactions drawn
MaxItems == 2         \* longest list of line items drawn for the varied order

\* --------------------------------------------------------------- constants

None == "None"

customer_shipping_account_code == 4000

\* -------------------------------------------------------------- text helpers

RECURSIVE lstrip(_)
lstrip(s) == IF s # <<>> /\ Head(s) = " " THEN lstrip(Tail(s)) ELSE s

RECURSIVE rstrip(_)
rstrip(s) ==
    IF s # <<>> /\ s[Len(s)] = " " THEN rstrip(SubSeq(s, 1, Len(s) - 1)) ELSE s

strip(s) == rstrip(lstrip(s))

RECURSIVE SumSeq(_)
SumSeq(s) == IF s = <<>> THEN 0 ELSE Head(s) + SumSeq(Tail(s))

RECURSIVE InsertSorted(_, _)
InsertSorted(x, s) ==
    IF s = <<>> THEN <<x>>
    ELSE IF x <= Head(s) THEN <<x>> \o s
    ELSE <<Head(s)>> \o InsertSorted(x, Tail(s))

RECURSIVE sorted(_)
sorted(s) == IF s = <<>> THEN <<>> ELSE InsertSorted(Head(s), sorted(Tail(s)))

Range(s) == {s[i] : i \in DOMAIN s}

Perms(S) == {q \in [1..Cardinality(S) -> S] : Range(q) = S}

SeqsUpTo(S, n) == UNION {[1..k -> S] : k \in 0..n}

\* ------------------------------------------------------- storefront contents

PayoutIds == {"P1", "P2"}      \* the payout ids that callers pass
PayoutDates == {"2021-11-01", "2021-11-02", "2021-11-03"}

\* shopify.Variant.find(): the whole catalog; variant "12" has no SKU
AllVariants ==
    << [id |-> "11", sku |-> "SKU-W"],
       [id |-> "12", sku |-> ""],
       [id |-> "14", sku |-> "SKU-Z"] >>

\* Payout.find(): P2 and P3 share a date, and no payout is dated 2021-11-03
AllPayouts ==
    << [id |-> "P1", date |-> "2021-11-01", amount |-> 10000],
       [id |-> "P2", date |-> "2021-11-02", amount |-> 20000],
       [id |-> "P3", date |-> "2021-11-02", amount |-> 500] >>

Widget == [variant_id |-> "11", name |-> "Widget", quantity |-> 2, price |-> 500,
           discount_allocations |-> <<[amount |-> 250], [amount |-> 100]>>]
Blank == [variant_id |-> "12", name |-> "Blank", quantity |-> 1, price |-> 700,
           discount_allocations |-> <<>>]
Gadget == [variant_id |-> None, name |-> "Gadget", quantity |-> 3, price |-> 150,
           discount_allocations |-> <<[amount |-> 50]>>]

ItemKinds == {Widget, Blank, Gadget}

\* processed_at "2021-11-01T10:00:00+01:00" as <<date-time, zone hours, zone minutes>>
Order101 ==
    [order_number |-> 1001, customer |-> 1,
     processed_at |-> <<"2021-11-01T10:00:00", "+01", "00">>,
     line_items |-> <<Widget>>,
     shipping_lines |-> <<[price |-> 300, discount_allocations |-> <<>>]>>]
Order102 ==
    [order_number |-> 1002, customer |-> 1,
     processed_at |-> <<"2021-11-01T12:30:00", "+01", "00">>,
     line_items |-> <<Widget, Gadget>>,
     shipping_lines |->
        <<[price |-> 400,
           discount_allocations |-> <<[amount |-> 100], [amount |-> 50]>>],
          [price |-> 200, discount_allocations |-> <<>>]>>]
Order103(items) ==
    [order_number |-> 1003, customer |-> 2,
     processed_at |-> <<"2021-11-02T09:15:00", "-05", "00">>,
     line_items |-> items,
     shipping_lines |-> <<>>]

Orders(ids, items) ==
    [o \in ids |->
        CASE o = "101" -> Order101
          [] o = "102" -> Order102
          [] o = "103" -> Order103(items)]

Customer(first, last, mail) ==
    [first_name |-> first, last_name |-> last, email |-> mail]

\* the deleted_products_map argument: omitted (<<>>) or given (<<map>>)
EmptyMap == [n \in {} |-> None]
GadgetMap == [n \in {"Gadget"} |-> "X-GADGET"]
MapArgs == {<<>>, <<GadgetMap>>}

Tx(order, cents) == [source_order_id |-> order, fee |-> cents]

\* the payout of the documentation's example, and two more
DefaultTransactions ==
    [p \in {"P1", "P2", "P3"} |->
        CASE p = "P1" -> <<Tx("101", 120), Tx("101", 30), Tx(None, 10)>>
          [] p = "P2" -> <<Tx("102", 50), Tx("103", 20), Tx("101", 5)>>
          [] p = "P3" -> <<Tx(None, 7)>>]

\* ----------------------------------------------------- the accounting API

\* AccountingApi.get_contacts(where='name="..."'): the contacts of that name
get_contacts(cts, name) == SelectSeq(cts, LAMBDA c : c.name = name)

\* AccountingApi.get_invoices(invoice_numbers=[n]): the invoices of that number
get_invoices(invs, number) == SelectSeq(invs, LAMBDA i : i.invoice_number = number)

\* AccountingApi.create_contacts: the contact is stored under a fresh id
create_contacts(cts, contact) ==
    Append(cts, [contact EXCEPT !.contact_id = "ct" \o ToString(Len(cts) + 1)])

\* AccountingApi.update_contact: the contact of that id takes the new fields
update_contact(cts, contact_id, contact) ==
    [i \in DOMAIN cts |->
        IF cts[i].contact_id = contact_id
        THEN [contact EXCEPT !.contact_id = contact_id]
        ELSE cts[i]]

\* AccountingApi.create_invoices
create_invoices(invs, invoice) == Append(invs, invoice)

\* ------------------------------------------------------------ Shopify2Xero

\* a faulty variant of where_name: the names are not stripped
where_name_unstripped(customer) ==
    customer.first_name \o <<" ">> \o customer.last_name

\* the name searched for: f'name="{first_name.strip()} {last_name.strip()}"'
where_name(customer) ==
    strip(customer.first_name) \o <<" ">> \o strip(customer.last_name)

\* a faulty variant of has_xero_invoice: the lookup is made under the bare order number
has_xero_invoice_bare_number(invs, invoice_number) ==
    get_invoices(invs, SubSeq(invoice_number, 13, Len(invoice_number))) # <<>>

\* get_xero_invoice: has the accounting system an invoice of that number
has_xero_invoice(invs, invoice_number) == get_invoices(invs, invoice_number) # <<>>

\* f'INV-SHOPIFY-{order.order_number}'
invoice_number_of(order) == "INV-SHOPIFY-" \o ToString(order.order_number)

\* Contact(name=f'{first_name} {last_name}', ...) of copy_customer
new_contact(customer_id, customer) ==
    [contact_id |-> None,
     name |-> customer.first_name \o <<" ">> \o customer.last_name,
     first_name |-> customer.first_name,
     last_name |-> customer.last_name,
     email_address |-> customer.email,
     is_customer |-> TRUE,
     contact_number |-> ToString(customer_id)]

\* an accounting write: the API method and the record handed to it
Write(api, arg) == [api |-> api, arg |-> arg]

\* copy_customer(customer_id, update): the contacts afterwards, the Contact
\* returned, the writes issued and the remote calls made
copy_customer(cust, cts, customer_id, update) ==
    LET customer == cust[customer_id]
        found == IF update THEN get_contacts(cts, where_name(customer)) ELSE <<>>
        contact == new_contact(customer_id, customer)
    IN  IF found # <<>>
        THEN [contacts |-> update_contact(cts, Head(found).contact_id, contact),
              contact |-> contact,
              writes |-> <<Write("update_contact", contact)>>,
              shopify |-> 1, xero |-> 2]
        ELSE [contacts |-> create_contacts(cts, contact),
              contact |-> contact,
              writes |-> <<Write("create_contacts", contact)>>,
              shopify |-> 1, xero |-> IF update THEN 2 ELSE 1]

\* {variant.id: variant.sku for variant in get_all_shopify_variants()}
variant_id_to_sku_map(variants) ==
    [v \in {variants[i].id : i \in DOMAIN variants} |->
        LET last == CHOOSE i \in DOMAIN variants :
                        /\ variants[i].id = v
                        /\ \A j \in DOMAIN variants : variants[j].id = v => j <= i
        IN  variants[last].sku]

\* the check of one line item: "ok", or the error it raises
check_line_item(line_item, dpm, skus) ==
    IF line_item.variant_id = None
    THEN IF line_item.name \notin DOMAIN dpm THEN "ValueError: deleted" ELSE "ok"
    ELSE IF line_item.variant_id \notin DOMAIN skus THEN "KeyError"
    ELSE IF skus[line_item.variant_id] = "" THEN "ValueError: SKU"
    ELSE "ok"

\* a faulty variant of check_line_items: only the first line item is checked
check_first_line_item(line_items, dpm, skus) ==
    IF line_items = <<>> THEN "ok" ELSE check_line_item(Head(line_items), dpm, skus)

\* the validation loop: the error of the first line item that fails, or "ok"
RECURSIVE check_line_items(_, _, _)
check_line_items(line_items, dpm, skus) ==
    IF line_items = <<>> THEN "ok"
    ELSE LET first == check_line_item(Head(line_items), dpm, skus)
         IN  IF first # "ok" THEN first
             ELSE check_line_items(Tail(line_items), dpm, skus)

\* a faulty variant of discount_amount: only the first allocation counts
first_discount_amount(discount_allocations) ==
    IF discount_allocations = <<>> THEN 0 ELSE discount_allocations[1].amount

\* sum(float(a.amount) for a in discount_allocations), in cents
discount_amount(discount_allocations) ==
    SumSeq([i \in DOMAIN discount_allocations |-> discount_allocations[i].amount])

\* variant_id_to_sku_map.get(variant_id, deleted_products_map.get(name))
item_code_of(line_item, dpm, skus) ==
    IF line_item.variant_id \in DOMAIN skus THEN skus[line_item.variant_id]
    ELSE IF line_item.name \in DOMAIN dpm THEN dpm[line_item.name]
    ELSE None

\* LineItem(...) for an order line item; unset fields are None
product_line(line_item, dpm, skus) ==
    [item_code |-> item_code_of(line_item, dpm, skus),
     description |-> None,
     quantity |-> line_item.quantity,
     unit_amount |-> line_item.price,
     account_code |-> None,
     discount_amount |-> discount_amount(line_item.discount_allocations)]

\* LineItem(...) for a shipping line
postage_line(shipping_line) ==
    [item_code |-> None,
     description |-> "Postage",
     quantity |-> 1,
     unit_amount |-> shipping_line.price,
     account_code |-> customer_shipping_account_code,
     discount_amount |-> discount_amount(shipping_line.discount_allocations)]

\* the line_items list of the new invoice
invoice_line_items(order, dpm, skus) ==
    [i \in DOMAIN order.line_items |-> product_line(order.line_items[i], dpm, skus)]
    \o [i \in DOMAIN order.shipping_lines |-> postage_line(order.shipping_lines[i])]

\* strptime(processed_at[:-3] + processed_at[-2:], '%Y-%m-%dT%H:%M:%S%z')
parse_processed_at(processed_at) ==
    [local |-> processed_at[1], utcoffset |-> processed_at[2] \o processed_at[3]]

\* Invoice(...) of copy_order
new_invoice(order, contact, dpm, skus) ==
    [type |-> "ACCREC",
     contact |-> contact,
     line_items |-> invoice_line_items(order, dpm, skus),
     date |-> parse_processed_at(order.processed_at),
     due_date |-> parse_processed_at(order.processed_at),
     invoice_number |-> invoice_number_of(order),
     status |-> "AUTHORISED"]

Returned(outcome) == outcome \in {"created", "exists"}

\* a faulty variant of copy_order: the line items are checked before the invoice lookup
copy_order_checks_first(cust, ords, cts, invs, order_id, map_arg) ==
    LET dpm == IF map_arg = <<>> THEN EmptyMap ELSE map_arg[1]
        order == ords[order_id]
        invoice_number == invoice_number_of(order)
        skus == variant_id_to_sku_map(AllVariants)
        checked == check_line_items(order.line_items, dpm, skus)
        found == get_contacts(cts, where_name(cust[order.customer]))
        copied == copy_customer(cust, cts, order.customer, FALSE)
        contact == IF found # <<>> THEN Head(found) ELSE copied.contact
        invoice == new_invoice(order, contact, dpm, skus)
    IN  IF checked # "ok"
        THEN [outcome |-> checked, contacts |-> cts, invoices |-> invs,
              writes |-> <<>>, shopify |-> 2, xero |-> 0]
        ELSE IF has_xero_invoice(invs, invoice_number)
        THEN [outcome |-> "exists", contacts |-> cts, invoices |-> invs,
              writes |-> <<>>, shopify |-> 2, xero |-> 1]
        ELSE [outcome |-> "created",
              contacts |-> IF found # <<>> THEN cts ELSE copied.contacts,
              invoices |-> create_invoices(invs, invoice),
              writes |-> (IF found # <<>> THEN <<>> ELSE copied.writes)
                         \o <<Write("create_invoices", invoice)>>,
              shopify |-> 2 + (IF found # <<>> THEN 0 ELSE copied.shopify),
              xero |-> 3 + (IF found # <<>> THEN 0 ELSE copied.xero)]

\* a faulty variant of copy_order: the contact is resolved, and created when missing,
\* before the line items are checked
copy_order_contact_first(cust, ords, cts, invs, order_id, map_arg) ==
    LET dpm == IF map_arg = <<>> THEN EmptyMap ELSE map_arg[1]
        order == ords[order_id]
        invoice_number == invoice_number_of(order)
        skus == variant_id_to_sku_map(AllVariants)
        checked == check_line_items(order.line_items, dpm, skus)
        found == get_contacts(cts, where_name(cust[order.customer]))
        copied == copy_customer(cust, cts, order.customer, FALSE)
        contact == IF found # <<>> THEN Head(found) ELSE copied.contact
        invoice == new_invoice(order, contact, dpm, skus)
        resolved == IF found # <<>> THEN cts ELSE copied.contacts
        contact_writes == IF found # <<>> THEN <<>> ELSE copied.writes
    IN  IF has_xero_invoice(invs, invoice_number)
        THEN [outcome |-> "exists", contacts |-> cts, invoices |-> invs,
              writes |-> <<>>, shopify |-> 1, xero |-> 1]
        ELSE IF checked # "ok"
        THEN [outcome |-> checked, contacts |-> resolved, invoices |-> invs,
              writes |-> contact_writes,
              shopify |-> 2 + (IF found # <<>> THEN 0 ELSE copied.shopify),
              xero |-> 2 + (IF found # <<>> THEN 0 ELSE copied.xero)]
        ELSE [outcome |-> "created",
              contacts |-> resolved,
              invoices |-> create_invoices(invs, invoice),
              writes |-> contact_writes \o <<Write("create_invoices", invoice)>>,
              shopify |-> 2 + (IF found # <<>> THEN 0 ELSE copied.shopify),
              xero |-> 3 + (IF found # <<>> THEN 0 ELSE copied.xero)]

\* copy_order(order_id, deleted_products_map): how it ends ("exists" and
\* "created" return, anything else is the error raised), the accounting system
\* afterwards, the writes issued and the remote calls made
copy_order(cust, ords, cts, invs, order_id, map_arg) ==
    LET dpm == IF map_arg = <<>> THEN EmptyMap ELSE map_arg[1]
        order == ords[order_id]
        invoice_number == invoice_number_of(order)
        skus == variant_id_to_sku_map(AllVariants)
        checked == check_line_items(order.line_items, dpm, skus)
        found == get_contacts(cts, where_name(cust[order.customer]))
        copied == copy_customer(cust, cts, order.customer, FALSE)
        contact == IF found # <<>> THEN Head(found) ELSE copied.contact
        invoice == new_invoice(order, contact, dpm, skus)
    IN  IF has_xero_invoice(invs, invoice_number)
        THEN [outcome |-> "exists", contacts |-> cts, invoices |-> invs,
              writes |-> <<>>, shopify |-> 1, xero |-> 1]
        ELSE IF checked # "ok"
        THEN [outcome |-> checked, contacts |-> cts, invoices |-> invs,
              writes |-> <<>>, shopify |-> 2, xero |-> 1]
        ELSE [outcome |-> "created",
              contacts |-> IF found # <<>> THEN cts ELSE copied.contacts,
              invoices |-> create_invoices(invs, invoice),
              writes |-> (IF found # <<>> THEN <<>> ELSE copied.writes)
                         \o <<Write("create_invoices", invoice)>>,
              shopify |-> 2 + (IF found # <<>> THEN 0 ELSE copied.shopify),
              xero |-> 3 + (IF found # <<>> THEN 0 ELSE copied.xero)]

\* get_shopify_payout_by_date: the payouts of that date (exactly one is required)
payouts_on(date) == SelectSeq(AllPayouts, LAMBDA p : p.date = date)

\* get_shopify_payout: the payout of that id
payout_of(payout_id) == Head(SelectSeq(AllPayouts, LAMBDA p : p.id = payout_id))

\* a faulty variant of bad_payout_arguments: only the absence of both is refused
no_payout_arguments(payout_id, payout_date) ==
    (payout_id = None) /\ (payout_date = None)

\* (payout_id is None) == (payout_date is None)
bad_payout_arguments(payout_id, payout_date) ==
    (payout_id = None) = (payout_date = None)

\* {t.source_order_id for t in transactions if t.source_order_id is not None}
source_order_ids(txs) ==
    {txs[i].source_order_id : i \in {j \in DOMAIN txs : txs[j].source_order_id # None}}

\* a faulty variant of total_fees: the fees of transactions without an order are left out
total_fees_of_orders(txs) ==
    SumSeq([i \in DOMAIN txs |->
               IF txs[i].source_order_id = None THEN 0 ELSE txs[i].fee])

\* sum(float(t.fee) for t in transactions), in cents
total_fees(txs) == SumSeq([i \in DOMAIN txs |-> txs[i].fee])

\* sorted(get_shopify_order(order_id).order_number for order_id in order_ids)
order_numbers(ords, ids) ==
    LET some == CHOOSE q \in Perms(ids) : TRUE
    IN  sorted([i \in DOMAIN some |-> ords[some[i]].order_number])

PayoutSummary(ords, p, txs) ==
    [date |-> p.date,
     payout_amount |-> p.amount,
     order_numbers |-> order_numbers(ords, source_order_ids(txs)),
     total_fees |-> total_fees(txs)]

\* ------------------------------------------------------------------ states

NoPayout == [id |-> None, date |-> None, amount |-> 0]
NoCalls == [shopify |-> 0, xero |-> 0]

Outcome(status, error, summary) ==
    [status |-> status, error |-> error, summary |-> summary]

\* a contact or an invoice that was entered into the accounting system by hand
ExistingContact(id, name) ==
    [contact_id |-> id, name |-> name, first_name |-> <<>>, last_name |-> <<>>,
     email_address |-> "", is_customer |-> TRUE, contact_number |-> ""]
ExistingInvoice(number, contact) ==
    [type |-> "ACCREC", contact |-> contact, line_items |-> <<>>,
     date |-> [local |-> "2021-11-02T00:00:00", utcoffset |-> "+0000"],
     due_date |-> [local |-> "2021-11-02T00:00:00", utcoffset |-> "+0000"],
     invoice_number |-> number, status |-> "AUTHORISED"]

\* customer names, some with leading or trailing whitespace
NameChoices ==
    { <<<<"A">>, <<"B">>>>,
      <<<<" ", "A">>, <<"B">>>>,
      <<<<"A">>, <<"B", " ", " ">>>> }

Customers(n1, n2) ==
    [c \in {1, 2} |->
        IF c = 1 THEN Customer(n1[1], n1[2], "ab@example.com")
        ELSE Customer(n2[1], n2[2], "cd@example.com")]

DefaultCustomers == Customers(<<<<"A">>, <<"B">>>>, <<<<"C">>, <<"D", " ">>>>)

TxKinds == {Tx("101", 120), Tx("102", 30), Tx(None, 10)}

InitRest ==
    /\ pc = "idle"
    /\ op = [name |-> "none"]
    /\ order_ids = <<>>
    /\ payout = NoPayout
    /\ transactions = <<>>
    /\ result = Outcome("none", "", <<>>)
    /\ writes = <<>>
    /\ invoked = <<>>
    /\ calls = NoCalls
    /\ created = [c \in DOMAIN customers |-> 0]

\* the name of customer 1 varies, "A B" once stripped; two contacts "A B" may
\* exist already
InitNames ==
    /\ \E n1 \in NameChoices : customers = Customers(n1, <<<<"C">>, <<"D", " ">>>>)
    /\ orders = Orders({"101", "102", "103"}, <<Widget>>)
    /\ transactionsOf = DefaultTransactions
    /\ contacts \in { <<>>,
                      << ExistingContact("ct1", <<"A", " ", "B">>),
                         ExistingContact("ct2", <<"A", " ", "B">>) >> }
    /\ invoices = <<>>
    /\ InitRest

\* the line items of order 103 vary; an invoice of its number may exist already
InitItems ==
    /\ customers = DefaultCustomers
    /\ \E items \in SeqsUpTo(ItemKinds, MaxItems) :
          orders = Orders({"101", "103"}, items)
    /\ transactionsOf = [DefaultTransactions EXCEPT
                            !["P2"] = <<Tx("103", 20), Tx("101", 5)>>]
    /\ contacts = <<>>
    /\ invoices \in { <<>>,
                      << ExistingInvoice("INV-SHOPIFY-1003",
                                         ExistingContact("ct9", <<"Z">>)) >> }
    /\ InitRest

\* the transactions of payout P1 vary
InitTransactions ==
    /\ customers = DefaultCustomers
    /\ orders = Orders({"101", "102"}, <<>>)
    /\ \E txs \in SeqsUpTo(TxKinds, MaxTx) :
          transactionsOf = [DefaultTransactions EXCEPT !["P1"] = txs,
                                                       !["P2"] = <<Tx("102", 50)>>]
    /\ contacts = <<>>
    /\ invoices = <<>>
    /\ InitRest

Init == InitNames \/ InitItems \/ InitTransactions

\* ----------------------------------------------------------------- actions

Begin(call) ==
    /\ pc = "idle"
    /\ op' = call
    /\ UNCHANGED storefront

CreatedBy(ws) == Len(SelectSeq(ws, LAMBDA w : w.api = "create_contacts"))

\* a top-level copy_order(order_id, deleted_products_map)
CopyOrder(order_id, map_arg) ==
    LET r == copy_order(customers, orders, contacts, invoices, order_id, map_arg)
    IN  /\ Begin([name |-> "copy_order", order_id |-> order_id,
                  map_arg |-> map_arg])
        /\ contacts' = r.contacts
        /\ invoices' = r.invoices
        /\ writes' = r.writes
        /\ calls' = [shopify |-> r.shopify, xero |-> r.xero]
        /\ invoked' = <<order_id>>
        /\ created' = [created EXCEPT ![orders[order_id].customer] =
                                            @ + CreatedBy(r.writes)]
        /\ result' = IF Returned(r.outcome)
                     THEN Outcome("returned", "", <<>>)
                     ELSE Outcome("raised", r.outcome, <<>>)
        /\ UNCHANGED <<pc, order_ids, payout, transactions>>

\* copy_all_orders_for_payout(payout_id, payout_date, deleted_products_map) up
\* to the call of copy_orders: the argument check, the payout, its
\* transactions and the set of order ids, which is iterated in some order
CopyAllOrdersForPayout(payout_id, payout_date, map_arg) ==
    /\ Begin([name |-> "copy_all_orders_for_payout", payout_id |-> payout_id,
              payout_date |-> payout_date, map_arg |-> map_arg])
    /\ writes' = <<>>
    /\ invoked' = <<>>
    /\ UNCHANGED <<contacts, invoices, created>>
    /\ IF bad_payout_arguments(payout_id, payout_date)
       THEN /\ result' = Outcome("raised", "ValueError: arguments", <<>>)
            /\ calls' = NoCalls
            /\ UNCHANGED <<pc, order_ids, payout, transactions>>
       ELSE IF payout_id = None /\ Len(payouts_on(payout_date)) # 1
       THEN /\ result' = Outcome("raised", "ValueError: payouts", <<>>)
            /\ calls' = [shopify |-> 1, xero |-> 0]
            /\ UNCHANGED <<pc, order_ids, payout, transactions>>
       ELSE LET p == IF payout_id = None THEN Head(payouts_on(payout_date))
                     ELSE payout_of(payout_id)
                txs == transactionsOf[p.id]
            IN  /\ payout' = p
                /\ transactions' = txs
                /\ order_ids' \in Perms(source_order_ids(txs))
                /\ calls' = [shopify |-> 2, xero |-> 0]
                /\ result' = Outcome("running", "", <<>>)
                /\ pc' = "copy_orders"

\* a faulty variant of CopyOrdersNext: an order that fails is skipped and the loop goes on
CopyOrdersNextSkippingFailures ==
    LET order_id == Head(order_ids)
        r == copy_order(customers, orders, contacts, invoices, order_id, op.map_arg)
    IN  /\ pc = "copy_orders"
        /\ order_ids # <<>>
        /\ contacts' = r.contacts
        /\ invoices' = r.invoices
        /\ writes' = writes \o r.writes
        /\ calls' = [shopify |-> calls.shopify + r.shopify,
                     xero |-> calls.xero + r.xero]
        /\ invoked' = Append(invoked, order_id)
        /\ created' = [created EXCEPT ![orders[order_id].customer] =
                                            @ + CreatedBy(r.writes)]
        /\ order_ids' = Tail(order_ids)
        /\ UNCHANGED <<storefront, op, payout, transactions, pc, result>>

\* one iteration of copy_orders: copy_order of the next order id; an error
\* it raises ends copy_all_orders_for_payout
CopyOrdersNext ==
    LET order_id == Head(order_ids)
        r == copy_order(customers, orders, contacts, invoices, order_id, op.map_arg)
    IN  /\ pc = "copy_orders"
        /\ order_ids # <<>>
        /\ contacts' = r.contacts
        /\ invoices' = r.invoices
        /\ writes' = writes \o r.writes
        /\ calls' = [shopify |-> calls.shopify + r.shopify,
                     xero |-> calls.xero + r.xero]
        /\ invoked' = Append(invoked, order_id)
        /\ created' = [created EXCEPT ![orders[order_id].customer] =
                                            @ + CreatedBy(r.writes)]
        /\ IF Returned(r.outcome)
           THEN /\ order_ids' = Tail(order_ids)
                /\ UNCHANGED <<pc, result>>
           ELSE /\ pc' = "idle"
                /\ result' = Outcome("raised", r.outcome, <<>>)
                /\ UNCHANGED order_ids
        /\ UNCHANGED <<storefront, op, payout, transactions>>

\* the end of copy_all_orders_for_payout: the summary
ReturnPayoutSummary ==
    /\ pc = "copy_orders"
    /\ order_ids = <<>>
    /\ pc' = "idle"
    /\ result' = Outcome("returned", "",
                         <<PayoutSummary(orders, payout, transactions)>>)
    /\ calls' = [calls EXCEPT !.shopify =
                                 @ + Cardinality(source_order_ids(transactions))]
    /\ UNCHANGED <<storefront, contacts, invoices, op, order_ids, payout,
                   transactions, writes, invoked, created>>

Next ==
    \/ \E o \in DOMAIN orders, m \in MapArgs : CopyOrder(o, m)
    \/ \E p \in PayoutIds \cup {None}, d \in PayoutDates \cup {None}, m \in MapArgs :
          CopyAllOrdersForPayout(p, d, m)
    \/ CopyOrdersNext
    \/ ReturnPayoutSummary

Spec == Init /\ [][Next]_vars

\* ------------------------------------------------- vocabulary of the claims

PayoutCall == "copy_all_orders_for_payout"

\* the invoice number the documentation gives an order
NumberFor(o) == "INV-SHOPIFY-" \o ToString(orders[o].order_number)

HasInvoiceFor(o) ==
    \E i \in DOMAIN invoices : invoices[i].invoice_number = NumberFor(o)

\* the deleted-product overrides of the current call
Overrides(arg) == IF arg = <<>> THEN {} ELSE DOMAIN arg[1]

\* a line item that must be refused
BadLineItem(line_item, arg) ==
    \/ line_item.variant_id = None /\ line_item.name \notin Overrides(arg)
    \/ /\ line_item.variant_id # None
       /\ \E k \in DOMAIN AllVariants :
             AllVariants[k].id = line_item.variant_id /\ AllVariants[k].sku = ""

HasBadLineItem(o, arg) ==
    \E i \in DOMAIN orders[o].line_items : BadLineItem(orders[o].line_items[i], arg)

\* stripped first name, one space, stripped last name
ComposedName(c) ==
    strip(customers[c].first_name) \o <<" ">> \o strip(customers[c].last_name)

HasContactFor(c) == \E i \in DOMAIN contacts : contacts[i].name = ComposedName(c)

\* this step is an invocation of copy_order for order o, by the caller or by
\* copy_orders
Invoking(o) ==
    \/ /\ pc = "idle"
       /\ op'.name = "copy_order"
       /\ op'.order_id = o
    \/ /\ pc = "copy_orders"
       /\ order_ids # <<>>
       /\ Head(order_ids) = o
       /\ invoked' = Append(invoked, o)

\* the writes that this step issues
NewWrites == IF pc = "idle" THEN writes' ELSE SubSeq(writes', Len(writes) + 1, Len(writes'))

\* this step's copy_order raises
Raises == result'.status = "raised" /\ pc' = "idle"

\* this step's copy_order returns normally
Returns ==
    IF pc = "idle" THEN result'.status = "returned"
    ELSE pc' = "copy_orders" /\ order_ids' = Tail(order_ids)

ContactWrites(ws) ==
    SelectSeq(ws, LAMBDA w : w.api \in {"create_contacts", "update_contact"})

InvoiceWrites(ws) == SelectSeq(ws, LAMBDA w : w.api = "create_invoices")

\* ------------------------------------------------------------------ claims

\* C1: after any sequence of copy_order and copy_all_orders_for_payout calls
\* the accounting system holds at most one invoice per invoice number: no
\* invoice is created under a number that an invoice already carries.
C1_OneInvoicePerNumber ==
    \A i, j \in DOMAIN invoices :
        invoices[i].invoice_number = invoices[j].invoice_number => i = j

\* C1 witness: a second copy_order of order 101 returned without a write, and
\* the one invoice of its number is the one an earlier call created
C1_Witness ==
    /\ op.name = "copy_order"
    /\ op.order_id = "101"
    /\ result.status = "returned"
    /\ writes = <<>>
    /\ Cardinality({i \in DOMAIN invoices :
                       invoices[i].invoice_number = "INV-SHOPIFY-1001"}) = 1

\* C2: copy_order of an order whose invoice number already exists returns
\* normally and changes nothing in the accounting system: no contact is
\* created or updated and no invoice is created.
C2_ExistingInvoiceIsNoOp ==
    [][\A o \in DOMAIN orders :
          (Invoking(o) /\ HasInvoiceFor(o))
              => /\ Returns
                 /\ contacts' = contacts
                 /\ invoices' = invoices
                 /\ NewWrites = <<>>]_vars

\* C2 witness: copy_order returned without a write for an order whose line
\* items would be refused and whose customer has no contact
C2_Witness ==
    /\ op.name = "copy_order"
    /\ result.status = "returned"
    /\ writes = <<>>
    /\ HasInvoiceFor(op.order_id)
    /\ HasBadLineItem(op.order_id, op.map_arg)
    /\ ~HasContactFor(orders[op.order_id].customer)

\* C3: copy_order of an order with no invoice yet and with a line item, at any
\* position, that has a null variant and no override or a variant with an
\* empty SKU raises, and has written nothing: no contact and no invoice.
C3_ValidationBeforeWrites ==
    [][\A o \in DOMAIN orders :
          (Invoking(o) /\ ~HasInvoiceFor(o) /\ HasBadLineItem(o, op'.map_arg))
              => /\ Raises
                 /\ contacts' = contacts
                 /\ invoices' = invoices
                 /\ NewWrites = <<>>]_vars

\* C3 witness: copy_order raised for an order whose second line item is the
\* bad one and whose customer has no contact; nothing was written
C3_Witness ==
    /\ op.name = "copy_order"
    /\ result.status = "raised"
    /\ Len(orders[op.order_id].line_items) = 2
    /\ ~BadLineItem(orders[op.order_id].line_items[1], op.map_arg)
    /\ BadLineItem(orders[op.order_id].line_items[2], op.map_arg)
    /\ ~HasContactFor(orders[op.order_id].customer)
    /\ writes = <<>>
    /\ contacts = <<>>

\* C4 as claimed: whenever copy_all_orders_for_payout raises a precondition
\* violation, the call has written nothing to the accounting system.
C4_NoWriteWhenPayoutRaises ==
    (op.name = PayoutCall /\ result.status = "raised") => writes = <<>>

\* C4 as amended: the step of copy_all_orders_for_payout that raises writes
\* nothing.  Raised for its arguments or for the payout-date lookup, the call
\* has written nothing at all; raised for a line item of one of the payout's
\* orders, contacts and invoices are as they were when copy_order began for
\* that order, and what earlier orders of the call wrote remains.
C4_FailingStepWritesNothing ==
    [][(op'.name = PayoutCall /\ result'.status = "raised"
            /\ (pc = "copy_orders" \/ op' # op \/ result.status # "raised"))
          => /\ contacts' = contacts
             /\ invoices' = invoices
             /\ IF pc = "idle" THEN writes' = <<>> /\ invoked' = <<>>
                ELSE writes' = writes]_vars

\* C4 witness: copy_all_orders_for_payout raised for an order after an earlier
\* order of the same call had its invoice created
C4_Witness ==
    /\ op.name = PayoutCall
    /\ result.status = "raised"
    /\ result.error = "ValueError: deleted"
    /\ InvoiceWrites(writes) # <<>>
    /\ ~HasInvoiceFor(invoked[Len(invoked)])

\* C5: copy_all_orders_for_payout with both or neither of payout_id and
\* payout_date raises before any call to the storefront or the accounting
\* API; with exactly one of them the argument check does not raise.
C5_ExactlyOneOf ==
    op.name = PayoutCall =>
        LET both == op.payout_id # None /\ op.payout_date # None
            neither == op.payout_id = None /\ op.payout_date = None
            refused == result.status = "raised"
                       /\ result.error = "ValueError: arguments"
        IN  /\ (both \/ neither) <=> refused
            /\ refused => calls = NoCalls /\ writes = <<>> /\ invoked = <<>>

\* C5 witness: a call with both arguments was refused without a remote call
C5_Witness ==
    /\ op.name = PayoutCall
    /\ op.payout_id # None
    /\ op.payout_date # None
    /\ result.status = "raised"
    /\ calls = NoCalls

\* the distinct orders that a list of transactions names
OrdersNamed(txs) == {txs[i].source_order_id : i \in DOMAIN txs} \ {None}

Occurrences(seq, x) == Cardinality({i \in DOMAIN seq : seq[i] = x})

RECURSIVE FeesFrom(_, _)
FeesFrom(txs, i) == IF i > Len(txs) THEN 0 ELSE txs[i].fee + FeesFrom(txs, i + 1)

\* C6: a successful copy_all_orders_for_payout has invoked copy_order exactly
\* once for each distinct non-null source order id and for nothing else, and
\* its total_fees is the sum of the fees of all transactions.
C6_EachOrderOnceAndAllFees ==
    (op.name = PayoutCall /\ result.status = "returned") =>
        /\ \A o \in OrdersNamed(transactions) : Occurrences(invoked, o) = 1
        /\ \A i \in DOMAIN invoked : invoked[i] \in OrdersNamed(transactions)
        /\ result.summary[1].total_fees = FeesFrom(transactions, 1)

\* C6 witness: the documentation's example, order 101 twice and one
\* transaction without an order, synced order 101 once and returned 1.60
C6_Witness ==
    /\ op.name = PayoutCall
    /\ result.status = "returned"
    /\ transactions = <<Tx("101", 120), Tx("101", 30), Tx(None, 10)>>
    /\ invoked = <<"101">>
    /\ result.summary[1].total_fees = 160

FirstContactFor(c) ==
    contacts[CHOOSE i \in DOMAIN contacts :
                /\ contacts[i].name = ComposedName(c)
                /\ \A j \in DOMAIN contacts : contacts[j].name = ComposedName(c) => i <= j]

\* C7: when the accounting system holds a contact of exactly the composed name
\* of the order's customer, copy_order creates and updates no contact, and the
\* invoice it creates references the first such contact.
C7_ExistingContactIsReused ==
    [][\A o \in DOMAIN orders :
          (Invoking(o) /\ HasContactFor(orders[o].customer))
              => /\ contacts' = contacts
                 /\ ContactWrites(NewWrites) = <<>>
                 /\ \A k \in DOMAIN InvoiceWrites(NewWrites) :
                       InvoiceWrites(NewWrites)[k].arg.contact =
                           FirstContactFor(orders[o].customer)
                 /\ Len(invoices') > Len(invoices) =>
                       invoices'[Len(invoices')].contact =
                           FirstContactFor(orders[o].customer)]_vars

\* C7 witness: copy_order created an invoice for a customer whose name carries
\* whitespace and who has two contacts of the composed name; it wrote no
\* contact and the invoice references the first of the two
C7_Witness ==
    /\ op.name = "copy_order"
    /\ result.status = "returned"
    /\ Len(writes) = 1
    /\ writes[1].api = "create_invoices"
    /\ customers[orders[op.order_id].customer].first_name = <<" ", "A">>
    /\ Len(contacts) = 2
    /\ contacts[1].name = ComposedName(orders[op.order_id].customer)
    /\ contacts[2].name = ComposedName(orders[op.order_id].customer)
    /\ writes[1].arg.contact = contacts[1]

RECURSIVE AllocatedUpTo(_, _)
AllocatedUpTo(allocations, n) ==
    IF n = 0 THEN 0 ELSE AllocatedUpTo(allocations, n - 1) + allocations[n].amount

Allocated(x) == AllocatedUpTo(x.discount_allocations, Len(x.discount_allocations))

CatalogSku(variant_id) ==
    AllVariants[CHOOSE k \in DOMAIN AllVariants : AllVariants[k].id = variant_id].sku

\* the lines that the documentation gives the invoice of an order
LinesAsDocumented(invoice, order, arg) ==
    LET items == order.line_items
        ships == order.shipping_lines
        lines == invoice.line_items
    IN  /\ Len(lines) = Len(items) + Len(ships)
        /\ \A i \in DOMAIN items :
              /\ lines[i].quantity = items[i].quantity
              /\ lines[i].unit_amount = items[i].price
              /\ lines[i].item_code =
                    IF items[i].variant_id = None THEN arg[1][items[i].name]
                    ELSE CatalogSku(items[i].variant_id)
              /\ lines[i].discount_amount = Allocated(items[i])
        /\ \A j \in DOMAIN ships :
              /\ lines[Len(items) + j].description = "Postage"
              /\ lines[Len(items) + j].quantity = 1
              /\ lines[Len(items) + j].unit_amount = ships[j].price
              /\ lines[Len(items) + j].account_code = customer_shipping_account_code
              /\ lines[Len(items) + j].item_code = None
              /\ lines[Len(items) + j].discount_amount = Allocated(ships[j])

\* C8: the invoice that copy_order creates has one line per line item, in
\* order, then one line per shipping line, in order; an order line carries the
\* quantity, the unit price, the override or the catalog SKU as item code and
\* the sum of the line item's discount allocations; a shipping line carries
\* 'Postage', quantity 1, the price, the shipping account code, no item code
\* and the sum of the shipping line's discount allocations.
C8_InvoiceLines ==
    \A k \in DOMAIN writes :
        writes[k].api = "create_invoices" =>
            \E o \in DOMAIN orders :
                /\ writes[k].arg.invoice_number = NumberFor(o)
                /\ LinesAsDocumented(writes[k].arg, orders[o], op.map_arg)

\* C8 witness: the invoice created for order 102: allocations of 2.50 and 1.00
\* give a discount of 3.50, the deleted product takes its override, and two
\* shipping lines follow
C8_Witness ==
    /\ op.name = "copy_order"
    /\ op.order_id = "102"
    /\ writes # <<>>
    /\ writes[Len(writes)].api = "create_invoices"
    /\ Len(writes[Len(writes)].arg.line_items) = 4
    /\ writes[Len(writes)].arg.line_items[1].discount_amount = 350
    /\ writes[Len(writes)].arg.line_items[2].item_code = "X-GADGET"
    /\ writes[Len(writes)].arg.line_items[3].discount_amount = 150
    /\ writes[Len(writes)].arg.line_items[4].description = "Postage"

\* C9: copy_all_orders_for_payout syncs its orders one after another, and an
\* error of copy_order for one of them ends the call: the error reaches the
\* caller, no summary is returned, copy_order is not invoked for the orders
\* not yet reached, and the invoices that earlier orders of the call created
\* stay, one per number.
C9_FailureAbortsBatch ==
    op.name = PayoutCall =>
        /\ pc = "copy_orders" =>
              /\ Range(invoked) \cup Range(order_ids) = OrdersNamed(transactions)
              /\ Len(invoked) + Len(order_ids) = Cardinality(OrdersNamed(transactions))
              /\ \A o \in Range(invoked) : HasInvoiceFor(o)
              /\ result.status = "running"
        /\ (result.status = "raised" /\ invoked # <<>>) =>
              /\ pc = "idle"
              /\ result.summary = <<>>
              /\ order_ids # <<>>
              /\ Head(order_ids) = invoked[Len(invoked)]
              /\ ~HasInvoiceFor(Head(order_ids))
              /\ \A o \in Range(Tail(order_ids)) : o \notin Range(invoked)
              /\ \A i \in 1..(Len(invoked) - 1) : HasInvoiceFor(invoked[i])
        /\ \A k \in DOMAIN writes :
              writes[k].api = "create_invoices" =>
                 Cardinality({i \in DOMAIN invoices :
                     invoices[i].invoice_number = writes[k].arg.invoice_number}) = 1

\* C9 witness: of three orders the first had its invoice created, the second
\* failed and the third was never reached
C9_Witness ==
    /\ op.name = PayoutCall
    /\ result.status = "raised"
    /\ Len(invoked) = 2
    /\ Len(order_ids) = 2
    /\ InvoiceWrites(writes) # <<>>
    /\ HasInvoiceFor(invoked[1])
    /\ ~HasInvoiceFor(order_ids[2])

\* C10 as claimed: starting with no contact for a customer, copy_order creates
\* at most one contact for them however many of their orders are copied, for
\* every first and last name.
C10_OneContactPerCustomer ==
    (\A i \in DOMAIN contacts : contacts[i].contact_number # "") =>
        \A c \in DOMAIN customers : created[c] <= 1

====
